---------------------------- MODULE Spec2Model ----------------------------
(***************************************************************************)
(* A model of nav2_rrtstar_planner::RRTStar (src/src/rrtstar_planner.cpp). *)
(*                                                                         *)
(* Representation.  World coordinates are integers (one lattice unit is    *)
(* one world unit); the random sampler draws from finite subsets of the    *)
(* supports of its uniform distributions.  A double that holds a distance  *)
(* or a cost is a fixed-point integer counting 1/Scale world units,        *)
(* rounded down.  A pose coordinate is a fixed-point integer counting      *)
(* 1/PoseScale world units.  The Bezier parameter t is an IEEE-754 binary64*)
(* value, kept exactly as <<hi, lo>> with value (hi * 2^29 + lo) * 2^-57   *)
(* and added with round-to-nearest-even at 53 significant bits.            *)
(* Vertex pointers are 1-based indices into tree_; 0 is nullptr.           *)
(***************************************************************************)
EXTENDS Integers, Sequences, FiniteSets, TLC

VARIABLES
    costmap_,               \* the cells whose cost is not FREE_SPACE
    requests,               \* the <<start, goal>> positions the host asks plans for
    pending,                \* per host thread: whether it calls createPlan ("never", "once", "repeat")
    max_iterations_,        \* member set by configure()
    tree_,                  \* member: the vertices, in insertion order
    ball_radius_constant_,  \* member set by calculateBallRadiusConstant()
    pc,                     \* per thread: position inside createPlan
    start,                  \* per thread: start.pose.position
    goal,                   \* per thread: goal.pose.position
    i,                      \* per thread: growth loop counter
    new_position,           \* per thread: the sampled vertex not yet in tree_
    vertices_inside_circle, \* per thread: indices returned by the radius query
    j,                      \* per thread: index of the scan over vertices_inside_circle
    total_cost_for_new_position, \* per thread
    end_vertex,             \* per thread: the goal vertex (a local)
    min_cost,               \* per thread
    global_path             \* per thread: the path being built / returned

vars == <<costmap_, requests, pending, max_iterations_, tree_, ball_radius_constant_,
          pc, start, goal, i, new_position, vertices_inside_circle, j,
          total_cost_for_new_position, end_vertex, min_cost, global_path>>

-----------------------------------------------------------------------------
(* Bounds of the model and configuration of the modelled planner.          *)

\* max_iterations_ as configured for the sequential specification
MaxIterations == 6
\* max_iterations_ as configured for the fair specification
SmallIterations == 3
\* max_iterations_ as configured for the two-thread specification
ConcIterations == 2

Procs == {1, 2}

\* costmap geometry: getSizeInCellsX/Y, getResolution, origin (0, 0)
SizeX == 3
SizeY == 2
CellSize == 2
\* interpolation_resolution_ parameter, in world units
InterpolationResolution == 1

\* fixed-point units
Scale == 100
PoseScale == 1000

Grids == { {}, {<<1, 0>>} }
Frames == {"map", "odom"}
global_frame_ == "map"
Starts == { <<0, 0>>, <<1, 1>> }
Goals == { <<2, 3>>, <<5, 3>> }
\* finite subsets of the supports of x_dis / y_dis
WorkXs == {1, 2}
WorkYs == {0, 1}
\* finite subset of the support [-5, 5] of the goal-centred offsets
GoalOffsets == {-3, 5}

Infinity == 2147483647

NoVertex == [x |-> 0, y |-> 0, cost |-> 0, parent |-> 0]

Min(a, b) == IF a <= b THEN a ELSE b

-----------------------------------------------------------------------------
(* Arithmetic helpers: std::sqrt, std::ceil, std::log.                     *)

\* bisection for floor(sqrt(n)) between lo and hi
SqrtSearch[n \in Nat, lo \in Nat, hi \in Nat] ==
    IF lo >= hi THEN lo
    ELSE LET mid == (lo + hi + 1) \div 2
         IN IF mid * mid <= n THEN SqrtSearch[n, mid, hi]
                              ELSE SqrtSearch[n, lo, mid - 1]

\* floor(sqrt(n))
ISqrt(n) == SqrtSearch[n, 0, Min(n, 46340)]

\* ceil(sqrt(n))
CeilSqrt(n) == LET r == ISqrt(n) IN IF r * r = n THEN r ELSE r + 1

\* std::log(n) in thousandths
LnMilli(n) ==
    CASE n = 1 -> 0     [] n = 2 -> 693   [] n = 3 -> 1099  [] n = 4 -> 1386
      [] n = 5 -> 1609  [] n = 6 -> 1792  [] n = 7 -> 1946  [] n = 8 -> 2079
      [] n = 9 -> 2197  [] n = 10 -> 2303 [] n = 11 -> 2398 [] n = 12 -> 2485

-----------------------------------------------------------------------------
(* Costmap queries.                                                        *)

\* worldToMap on the coordinate num/den: in bounds or not
InBounds(xnum, ynum, den) ==
    /\ xnum >= 0
    /\ ynum >= 0
    /\ xnum \div (den * CellSize) < SizeX
    /\ ynum \div (den * CellSize) < SizeY

\* getCost(mx, my) == FREE_SPACE for the cell of the coordinate num/den
FreeAt(xnum, ynum, den) ==
    <<xnum \div (den * CellSize), ynum \div (den * CellSize)>> \notin costmap_

NumFreeCells == SizeX * SizeY - Cardinality(costmap_)

-----------------------------------------------------------------------------
(* Helpers of the planner.                                                 *)

\* calculateBallRadiusConstant(): the value it stores, in 1/Scale units
calculateBallRadiusConstant ==
    LET freeVolume == CellSize * CellSize * NumFreeCells
        \* 2.0 * (1 + 1/2) * sqrt(freeVolume / pi), pi = 355/113
        brc == ISqrt((9 * freeVolume * Scale * Scale * 113) \div 355)
    IN Min(10 * Scale, brc)

\* calculateBallRadius(tree_size, 2, max_connection_distance), in 1/Scale units
calculateBallRadius(tree_size, max_connection_distance) ==
    LET term1 == (ball_radius_constant_ * LnMilli(tree_size)) \div (1000 * tree_size)
        term2 == ISqrt(term1 * Scale)
    IN Min(term2, max_connection_distance * Scale)

\* findVerticesInsideCircle(center, radius): indices in increasing order
RECURSIVE InsideFrom(_, _, _, _, _)
InsideFrom(t, k, cx, cy, radius) ==
    IF k > Len(t) THEN <<>>
    ELSE LET dx == t[k].x - cx
             dy == t[k].y - cy
             rest == InsideFrom(t, k + 1, cx, cy, radius)
         IN IF (dx * dx + dy * dy) * Scale * Scale <= radius * radius
            THEN <<k>> \o rest ELSE rest

findVerticesInsideCircle(cx, cy, radius) == InsideFrom(tree_, 1, cx, cy, radius)

\* calculate_distance(x, y, vertex), in 1/Scale units
calculate_distance(x, y, vertex) ==
    ISqrt(((vertex.x - x) * (vertex.x - x) + (vertex.y - y) * (vertex.y - y))
          * Scale * Scale)

\* nearest_neighbor(x, y): first vertex of strictly smallest distance
RECURSIVE NearestFrom(_, _, _, _, _, _)
NearestFrom(t, k, x, y, best, min_dist) ==
    IF k > Len(t) THEN best
    ELSE LET dist == calculate_distance(x, y, t[k])
         IN IF dist < min_dist THEN NearestFrom(t, k + 1, x, y, k, dist)
                               ELSE NearestFrom(t, k + 1, x, y, best, min_dist)

nearest_neighbor(x, y) == NearestFrom(tree_, 1, x, y, 0, Infinity)

\* the sample points of connectible: s + n * (e - s) / steps for n < steps
ConnectSteps(s, e) ==
    LET c == CeilSqrt((e.x - s.x) * (e.x - s.x) + (e.y - s.y) * (e.y - s.y))
    IN (c + InterpolationResolution - 1) \div InterpolationResolution

\* connectible(start, end)
connectible(s, e) ==
    LET steps == ConnectSteps(s, e)
    IN \A n \in 0 .. (steps - 1) :
         LET xnum == s.x * steps + n * (e.x - s.x)
             ynum == s.y * steps + n * (e.y - s.y)
         IN InBounds(xnum, ynum, steps) /\ FreeAt(xnum, ynum, steps)

\* calculate_cost_from_start(vertex): the vertex and its chain in tree `t`
RECURSIVE ChainCost(_, _)
ChainCost(t, k) == IF k = 0 THEN 0 ELSE t[k].cost + ChainCost(t, t[k].parent)

calculate_cost_from_start(v) == v.cost + ChainCost(tree_, v.parent)


-----------------------------------------------------------------------------
(* Path extraction (createPlan, the walk from the goal vertex to the root). *)

Pose(x, y) == [x |-> x * PoseScale, y |-> y * PoseScale]

\* the interpolated poses between vertex v and its parent p, nearest-to-p first:
\* v + n * (p - v) / steps for n = steps - 1 down to 1
Interpolated(v, p) ==
    LET steps == CeilSqrt(((v.x - p.x) * (v.x - p.x) + (v.y - p.y) * (v.y - p.y)) * 100)
    IN [m \in 1 .. (steps - 1) |->
          LET n == steps - m
          IN [x |-> ((v.x * steps + n * (p.x - v.x)) * PoseScale) \div steps,
              y |-> ((v.y * steps + n * (p.y - v.y)) * PoseScale) \div steps]]

\* the poses the walk from v prepends one by one, read front to back
RECURSIVE WalkPoses(_, _)
WalkPoses(t, v) ==
    IF v.parent = 0 THEN <<Pose(v.x, v.y)>>
    ELSE WalkPoses(t, t[v.parent]) \o Interpolated(v, t[v.parent]) \o <<Pose(v.x, v.y)>>

-----------------------------------------------------------------------------
(* binary64 arithmetic of the smoothing loop: <<hi, lo>> is the value       *)
(* (hi * 2^29 + lo) * 2^-57.                                                *)

Limb == 2^29
DoubleZero == <<0, 0>>
DoubleOne == <<2^28, 0>>
\* the binary64 nearest to 0.05 is 0x1999999999999A * 2^-57
DoubleStep == <<13421772, 429496730>>

\* the unit in the last place of a sum whose high limb is hi
Ulp(hi) ==
    IF hi >= 2^28 THEN 32
    ELSE IF hi >= 2^27 THEN 16
    ELSE IF hi >= 2^26 THEN 8
    ELSE IF hi >= 2^25 THEN 4
    ELSE IF hi >= 2^24 THEN 2
    ELSE 1

\* a + b, rounded to nearest, ties to even
DoubleAdd(a, b) ==
    LET lo == (a[2] + b[2]) % Limb
        hi == a[1] + b[1] + ((a[2] + b[2]) \div Limb)
        u == Ulp(hi)
        r == lo % u
        down == lo - r
        up == (2 * r > u) \/ (2 * r = u /\ (down \div u) % 2 = 1)
        lo2 == IF up THEN down + u ELSE down
    IN <<hi + (lo2 \div Limb), lo2 % Limb>>

DoubleLeq(a, b) == a[1] < b[1] \/ (a[1] = b[1] /\ a[2] <= b[2])

\* the values t takes in: for (double t = 0; t <= 1.0; t += 0.05)
RECURSIVE TLoop(_)
TLoop(t) == IF DoubleLeq(t, DoubleOne) THEN <<t>> \o TLoop(DoubleAdd(t, DoubleStep))
                                       ELSE <<>>

TValues == TLoop(DoubleZero)

\* t in twentieths, to the nearest
Twentieths(t) == ((t[1] \div 256) * 20 + 2^19) \div 2^20

\* computeBezierPoint(P0, P1, P2, P3, t)
computeBezierPoint(P0, P1, P2, P3, t) ==
    LET k == Twentieths(t)
        w0 == (20 - k) * (20 - k) * (20 - k)
        w1 == 3 * (20 - k) * (20 - k) * k
        w2 == 3 * (20 - k) * k * k
        w3 == k * k * k
    IN [x |-> (w0 * P0.x + w1 * P1.x + w2 * P2.x + w3 * P3.x) \div 8000,
        y |-> (w0 * P0.y + w1 * P1.y + w2 * P2.y + w3 * P3.y) \div 8000]

\* lines 302-313: the samples of every window, window after window
BezierSamples(poses) ==
    LET K == Len(TValues)
        W == Len(poses) - 3
    IN [m \in 1 .. (W * K) |->
          LET w == ((m - 1) \div K) + 1
          IN computeBezierPoint(poses[w], poses[w + 1], poses[w + 2], poses[w + 3],
                                TValues[((m - 1) % K) + 1])]

\* smoothPath without its closing push_back of the last pose
smoothPath_NoLastPose(poses) ==
    IF Len(poses) < 4 THEN poses
    ELSE <<poses[1]>> \o BezierSamples(poses)

\* smoothPath(path): the poses it leaves in path
smoothPath(poses) ==
    IF Len(poses) < 4 THEN poses
    ELSE <<poses[1]>> \o BezierSamples(poses) \o <<poses[Len(poses)]>>

-----------------------------------------------------------------------------
(* The planner: createPlan, one action per step of its control flow.        *)

\* the draws of the iteration: goal-centred when i % 5 == 0
SampleXs(self) ==
    IF i[self] % 5 = 0 THEN {goal[self][1] + o : o \in GoalOffsets} ELSE WorkXs

SampleYs(self) ==
    IF i[self] % 5 = 0 THEN {goal[self][2] + o : o \in GoalOffsets} ELSE WorkYs

\* the comparison of the scans, turned around
Improves_Reversed(potential_cost, best) == potential_cost > best

\* potential_cost < best (the comparisons of both scans)
Improves(potential_cost, best) == potential_cost < best

\* the acceptance test with a ceiling no cost exceeds
Accepts_Unbounded(cost) == cost <= Infinity

\* the acceptance test of the goal connection: min_cost < 10000
Accepts(cost) == cost < 10000 * Scale

\* the re-parenting turned around: `index` takes the new vertex as its parent
Reparent_Reversed(t, index, dist) ==
    [t EXCEPT ![index] = [@ EXCEPT !.parent = Len(t), !.cost = dist]]

\* lines 229-230: the new vertex (the last of t) takes `index` as its parent
Reparent(t, index, dist) ==
    [t EXCEPT ![Len(t)] = [@ EXCEPT !.parent = index, !.cost = dist]]

\* the loop advance without the i -= 1 of the else branch
RetryIndex_Advances(n) == n + 1

\* the loop advance after a failed connectivity check: i -= 1, then ++i
RetryIndex(n) == (n - 1) + 1

\* the references the next step of `self` dereferences are inside tree_
\* (always so when a single thread plans)
LiveRefs(self) ==
    CASE pc[self] = "connect" ->
           new_position[self].parent \in 1 .. Len(tree_)
      [] pc[self] = "rewire" ->
           j[self] <= Len(vertices_inside_circle[self])
             => vertices_inside_circle[self][j[self]] < Len(tree_)
      [] pc[self] = "goal_scan" ->
           j[self] <= Len(vertices_inside_circle[self])
             => vertices_inside_circle[self][j[self]] <= Len(tree_)
      [] pc[self] = "goal_check" ->
           Accepts(min_cost[self]) => end_vertex[self].parent <= Len(tree_)
      [] OTHER -> TRUE

\* lines 159-202: frame checks, ball radius constant, tree reset, goal pose
CreatePlan(self) ==
    /\ pending[self] # "never"
    /\ pending' = [pending EXCEPT ![self] = IF @ = "once" THEN "never" ELSE @]
    /\ pc[self] \in {"idle", "returned"}
    /\ \E r \in requests, sf \in Frames, gf \in Frames :
         LET s == r[1]
             g == r[2]
         IN
         /\ start' = [start EXCEPT ![self] = s]
         /\ goal' = [goal EXCEPT ![self] = g]
         /\ IF sf # global_frame_ \/ gf # global_frame_
            THEN /\ global_path' = [global_path EXCEPT ![self] = <<>>]
                 /\ pc' = [pc EXCEPT ![self] = "returned"]
                 /\ end_vertex' = [end_vertex EXCEPT ![self] = NoVertex]
                 /\ i' = [i EXCEPT ![self] = 0]
                 /\ UNCHANGED <<tree_, ball_radius_constant_>>
            ELSE /\ ball_radius_constant_' = calculateBallRadiusConstant
                 /\ tree_' = << [x |-> s[1], y |-> s[2], cost |-> 0, parent |-> 0] >>
                 /\ end_vertex' = [end_vertex EXCEPT ![self] =
                                     [x |-> g[1], y |-> g[2], cost |-> 0, parent |-> 0]]
                 /\ global_path' = [global_path EXCEPT ![self] = << Pose(g[1], g[2]) >>]
                 /\ i' = [i EXCEPT ![self] = 1]
                 /\ pc' = [pc EXCEPT ![self] = "grow"]
    /\ UNCHANGED <<costmap_, requests, max_iterations_, new_position,
                   vertices_inside_circle, j, total_cost_for_new_position, min_cost>>

\* lines 209-214: the vertex of a drawn point, its parent the nearest vertex
SampledVertex(rand_x, rand_y) ==
    LET nearest == nearest_neighbor(rand_x, rand_y)
    IN [x |-> rand_x, y |-> rand_y, parent |-> nearest,
        cost |-> calculate_distance(tree_[nearest].x, tree_[nearest].y,
                                    [x |-> rand_x, y |-> rand_y])]

\* lines 204-214: draw a point, find its nearest vertex
Sample(self) ==
    /\ pc[self] = "grow"
    /\ i[self] <= max_iterations_ - 1
    /\ \E rand_x \in SampleXs(self), rand_y \in SampleYs(self) :
         new_position' = [new_position EXCEPT ![self] = SampledVertex(rand_x, rand_y)]
    /\ pc' = [pc EXCEPT ![self] = "connect"]
    /\ UNCHANGED <<costmap_, requests, pending, max_iterations_, tree_, ball_radius_constant_,
                   start, goal, i, vertices_inside_circle, j,
                   total_cost_for_new_position, end_vertex, min_cost, global_path>>

\* lines 216-224 and 234-236: the connectivity check, then insert or retry
Connect(self) ==
    /\ pc[self] = "connect"
    /\ LiveRefs(self)
    /\ LET q == new_position[self]
       IN IF connectible(tree_[q.parent], q)
          THEN /\ vertices_inside_circle' =
                    [vertices_inside_circle EXCEPT ![self] =
                       findVerticesInsideCircle(q.x, q.y,
                                                calculateBallRadius(Len(tree_), 2))]
               /\ tree_' = Append(tree_, q)
               /\ total_cost_for_new_position' =
                    [total_cost_for_new_position EXCEPT ![self] =
                       calculate_cost_from_start(q)]
               /\ j' = [j EXCEPT ![self] = 1]
               /\ pc' = [pc EXCEPT ![self] = "rewire"]
               /\ i' = i
          ELSE /\ i' = [i EXCEPT ![self] = RetryIndex(i[self])]
               /\ pc' = [pc EXCEPT ![self] = "grow"]
               /\ UNCHANGED <<tree_, vertices_inside_circle, j,
                              total_cost_for_new_position>>
    /\ new_position' = [new_position EXCEPT ![self] = NoVertex]
    /\ UNCHANGED <<costmap_, requests, pending, max_iterations_, ball_radius_constant_,
                   start, goal, end_vertex, min_cost, global_path>>

\* lines 225-233: one candidate of the rewiring scan, or the end of the iteration
Rewire(self) ==
    /\ pc[self] = "rewire"
    /\ LiveRefs(self)
    /\ IF j[self] <= Len(vertices_inside_circle[self])
       THEN LET index == vertices_inside_circle[self][j[self]]
                back == tree_[Len(tree_)]
                dist == calculate_distance(back.x, back.y, tree_[index])
                potential_cost == calculate_cost_from_start(tree_[index]) + dist
            IN /\ IF /\ Improves(potential_cost, total_cost_for_new_position[self])
                     /\ connectible(back, tree_[index])
                  THEN /\ tree_' = Reparent(tree_, index, dist)
                       /\ total_cost_for_new_position' =
                            [total_cost_for_new_position EXCEPT ![self] = potential_cost]
                  ELSE UNCHANGED <<tree_, total_cost_for_new_position>>
               /\ j' = [j EXCEPT ![self] = j[self] + 1]
               /\ UNCHANGED <<pc, i, vertices_inside_circle>>
       ELSE /\ i' = [i EXCEPT ![self] = i[self] + 1]
            /\ pc' = [pc EXCEPT ![self] = "grow"]
            /\ vertices_inside_circle' = [vertices_inside_circle EXCEPT ![self] = <<>>]
            /\ j' = [j EXCEPT ![self] = 0]
            /\ total_cost_for_new_position' =
                 [total_cost_for_new_position EXCEPT ![self] = 0]
            /\ UNCHANGED tree_
    /\ UNCHANGED <<costmap_, requests, pending, max_iterations_, ball_radius_constant_,
                   start, goal, new_position, end_vertex, min_cost, global_path>>

\* lines 239-245: the growth loop is over; the goal's near set, computed once
GoalRadius(self) ==
    /\ pc[self] = "grow"
    /\ i[self] > max_iterations_ - 1
    /\ vertices_inside_circle' =
         [vertices_inside_circle EXCEPT ![self] =
            findVerticesInsideCircle(goal[self][1], goal[self][2],
                                     2 * calculateBallRadius(Len(tree_), 2))]
    /\ min_cost' = [min_cost EXCEPT ![self] = Infinity]
    /\ j' = [j EXCEPT ![self] = 1]
    /\ pc' = [pc EXCEPT ![self] = "goal_scan"]
    /\ UNCHANGED <<costmap_, requests, pending, max_iterations_, tree_, ball_radius_constant_,
                   start, goal, i, new_position, total_cost_for_new_position,
                   end_vertex, global_path>>

\* lines 246-254: one candidate of the goal scan, or the end of the scan
GoalScan(self) ==
    /\ pc[self] = "goal_scan"
    /\ LiveRefs(self)
    /\ IF j[self] <= Len(vertices_inside_circle[self])
       THEN LET index == vertices_inside_circle[self][j[self]]
                dist == calculate_distance(goal[self][1], goal[self][2], tree_[index])
                potential_cost == calculate_cost_from_start(tree_[index]) + dist
            IN /\ IF /\ Improves(potential_cost, min_cost[self])
                     /\ connectible(end_vertex[self], tree_[index])
                  THEN /\ end_vertex' = [end_vertex EXCEPT ![self] =
                                           [@ EXCEPT !.parent = index, !.cost = dist]]
                       /\ min_cost' = [min_cost EXCEPT ![self] = potential_cost]
                  ELSE UNCHANGED <<end_vertex, min_cost>>
               /\ j' = [j EXCEPT ![self] = j[self] + 1]
               /\ pc' = pc
       ELSE /\ pc' = [pc EXCEPT ![self] = "goal_check"]
            /\ UNCHANGED <<end_vertex, min_cost, j>>
    /\ UNCHANGED <<costmap_, requests, pending, max_iterations_, tree_, ball_radius_constant_,
                   start, goal, i, new_position, vertices_inside_circle,
                   total_cost_for_new_position, global_path>>

\* lines 256-290: accept (insert the goal, extract the path) or scan again
GoalCheck(self) ==
    /\ pc[self] = "goal_check"
    /\ LiveRefs(self)
    /\ IF Accepts(min_cost[self])
       THEN /\ tree_' = Append(tree_, end_vertex[self])
            /\ global_path' = [global_path EXCEPT ![self] =
                                 WalkPoses(tree_, end_vertex[self]) \o @]
            /\ pc' = [pc EXCEPT ![self] = "smooth"]
            /\ UNCHANGED <<min_cost, j>>
       ELSE /\ min_cost' = [min_cost EXCEPT ![self] = Infinity]
            /\ j' = [j EXCEPT ![self] = 1]
            /\ pc' = [pc EXCEPT ![self] = "goal_scan"]
            /\ UNCHANGED <<tree_, global_path>>
    /\ UNCHANGED <<costmap_, requests, pending, max_iterations_, ball_radius_constant_,
                   start, goal, i, new_position, vertices_inside_circle,
                   total_cost_for_new_position, end_vertex>>

\* lines 291-292: smooth the path and return it; the locals go out of scope
SmoothPath(self) ==
    /\ pc[self] = "smooth"
    /\ global_path' = [global_path EXCEPT ![self] = smoothPath(@)]
    /\ pc' = [pc EXCEPT ![self] = "returned"]
    /\ i' = [i EXCEPT ![self] = 0]
    /\ j' = [j EXCEPT ![self] = 0]
    /\ vertices_inside_circle' = [vertices_inside_circle EXCEPT ![self] = <<>>]
    /\ min_cost' = [min_cost EXCEPT ![self] = 0]
    /\ end_vertex' = [end_vertex EXCEPT ![self] = NoVertex]
    /\ UNCHANGED <<costmap_, requests, pending, max_iterations_, tree_, ball_radius_constant_,
                   start, goal, new_position, total_cost_for_new_position>>

\* a step through a reference that another thread's clear() or emplace_back()
\* invalidated: undefined behaviour, after which the call is not followed
RaceFault(self) ==
    /\ ~LiveRefs(self)
    /\ pc' = [pc EXCEPT ![self] = "undefined"]
    /\ UNCHANGED <<costmap_, requests, pending, max_iterations_, tree_, ball_radius_constant_,
                   start, goal, i, new_position, vertices_inside_circle, j,
                   total_cost_for_new_position, end_vertex, min_cost, global_path>>

-----------------------------------------------------------------------------
(* Specifications.                                                          *)

InitLocals ==
    /\ tree_ = <<>>
    /\ ball_radius_constant_ = 0
    /\ pc = [p \in Procs |-> "idle"]
    /\ start = [p \in Procs |-> <<0, 0>>]
    /\ goal = [p \in Procs |-> <<0, 0>>]
    /\ i = [p \in Procs |-> 0]
    /\ new_position = [p \in Procs |-> NoVertex]
    /\ vertices_inside_circle = [p \in Procs |-> <<>>]
    /\ j = [p \in Procs |-> 0]
    /\ total_cost_for_new_position = [p \in Procs |-> 0]
    /\ end_vertex = [p \in Procs |-> NoVertex]
    /\ min_cost = [p \in Procs |-> 0]
    /\ global_path = [p \in Procs |-> <<>>]

\* one thread plans, call after call, on any of the grids
Init ==
    /\ costmap_ \in Grids
    /\ requests = Starts \X Goals
    /\ pending = [p \in Procs |-> IF p = 1 THEN "repeat" ELSE "never"]
    /\ max_iterations_ = MaxIterations
    /\ InitLocals

Next ==
    \E self \in Procs :
        \/ CreatePlan(self)
        \/ Sample(self)
        \/ Connect(self)
        \/ Rewire(self)
        \/ GoalRadius(self)
        \/ GoalScan(self)
        \/ GoalCheck(self)
        \/ SmoothPath(self)

Spec == Init /\ [][Next]_vars

\* one thread plans on the fully free grid; every step that can be taken is
\* taken, and the sampler does not draw unconnectible points for ever
LiveInit ==
    /\ costmap_ = {}
    /\ requests = Starts \X Goals
    /\ pending = [p \in Procs |-> IF p = 1 THEN "repeat" ELSE "never"]
    /\ max_iterations_ = SmallIterations
    /\ InitLocals

AcceptedSample(self) ==
    /\ Sample(self)
    /\ connectible(tree_[new_position'[self].parent], new_position'[self])

LiveSpec ==
    /\ LiveInit
    /\ [][Next]_vars
    /\ WF_vars(Next)
    /\ \A self \in Procs : SF_vars(AcceptedSample(self))

\* two host threads call createPlan once each on the same planner object
ConcInit ==
    /\ costmap_ = {}
    /\ requests = { <<<<0, 0>>, <<2, 3>>>>, <<<<1, 1>>, <<5, 3>>>> }
    /\ pending = [p \in Procs |-> "once"]
    /\ max_iterations_ = ConcIterations
    /\ InitLocals

ConcNext ==
    \/ Next
    \/ \E self \in Procs : RaceFault(self)

ConcSpec == ConcInit /\ [][ConcNext]_vars

-----------------------------------------------------------------------------
(* Properties.                                                              *)

InGrowth(p) == pc[p] \in {"grow", "connect", "rewire"}
InCall(p) == pc[p] \in {"grow", "connect", "rewire", "goal_scan", "goal_check", "smooth"}

\* C1: a returned, non-empty path (raw, and again after smoothPath) starts at
\* the start position and ends at the goal position.
C1_PathEndpoints ==
    \A p \in Procs :
        (pc[p] \in {"smooth", "returned"} /\ global_path[p] # <<>>) =>
            /\ global_path[p][1] = Pose(start[p][1], start[p][2])
            /\ global_path[p][Len(global_path[p])] = Pose(goal[p][1], goal[p][2])

\* C1 witness: a call has returned a smoothed path (more poses than the raw
\* path of any route of the model can hold).
C1_Witness ==
    /\ pc[1] = "returned"
    /\ Len(global_path[1]) > 200
    /\ global_path[1][3] # global_path[1][1]

\* the vertices on the parent chain of vertex v in tree t, v first
RECURSIVE ChainOf(_, _)
ChainOf(t, v) == IF v.parent = 0 THEN <<v>> ELSE <<v>> \o ChainOf(t, t[v.parent])

\* following parent links from index k reaches the root in at most fuel steps
RECURSIVE ReachesRoot(_, _, _)
ReachesRoot(t, k, fuel) ==
    IF k = 1 THEN TRUE
    ELSE IF fuel = 0 \/ t[k].parent \notin 1 .. Len(t) THEN FALSE
    ELSE ReachesRoot(t, t[k].parent, fuel - 1)

MinOf(S) == CHOOSE m \in S : \A n \in S : m <= n

\* C2: on the fully free grid, with start # goal inside the workspace, every
\* createPlan call eventually returns.
C2_PlanEventuallyFound ==
    \A p \in Procs : InCall(p) ~> (pc[p] = "returned")

\* C3: every vertex on the parent chain of the connected goal vertex maps to
\* a valid grid cell that is free space.
C3_RouteCollisionFree ==
    \A p \in Procs :
        pc[p] = "smooth" =>
            \A m \in 1 .. Len(ChainOf(tree_, end_vertex[p])) :
                LET v == ChainOf(tree_, end_vertex[p])[m]
                IN InBounds(v.x, v.y, 1) /\ FreeAt(v.x, v.y, 1)

\* C4: during a planning call the tree's first element is the start vertex
\* with cost 0 and no parent; every other vertex has a parent in the tree and
\* a cost >= 0, and its parent chain reaches the root within tree_size steps.
C4_TreeWellFormed ==
    \A p \in Procs :
        InCall(p) =>
            /\ Len(tree_) >= 1
            /\ tree_[1] = [x |-> start[p][1], y |-> start[p][2], cost |-> 0, parent |-> 0]
            /\ \A k \in 2 .. Len(tree_) :
                 /\ tree_[k].parent \in 1 .. Len(tree_)
                 /\ tree_[k].cost >= 0
                 /\ ReachesRoot(tree_, k, Len(tree_))

\* C4 witness: the goal has been connected through a chain of at least two
\* tree vertices below the root, in a tree where a vertex was re-parented.
C4_Witness ==
    /\ pc[1] = "smooth"
    /\ Len(ChainOf(tree_, end_vertex[1])) >= 4
    /\ \E k \in 2 .. Len(tree_) - 1 :
         tree_[k].parent # NearestFrom(SubSeq(tree_, 1, k - 1), 1, tree_[k].x, tree_[k].y,
                                       0, Infinity)

\* C5: smoothPath leaves a path of 3 or fewer poses unchanged and turns n >= 4
\* poses into the first pose, 21 samples for each of the n - 3 windows, and the
\* last pose.
C5_SmoothSamples ==
    [][\A p \in Procs :
         (pc[p] = "smooth" /\ pc'[p] = "returned") =>
            LET n == Len(global_path[p])
            IN IF n <= 3 THEN global_path'[p] = global_path[p]
               ELSE /\ Len(global_path'[p]) = 21 * (n - 3) + 2
                    /\ global_path'[p][1] = global_path[p][1]
                    /\ global_path'[p][Len(global_path'[p])] = global_path[p][n]]_vars

\* the state of createPlan's locals in thread p
Locals(p) ==
    <<pc[p], i[p], j[p], new_position[p], vertices_inside_circle[p],
      total_cost_for_new_position[p], end_vertex[p], min_cost[p], global_path[p]>>

\* C6: the tree and the ball radius constant a call works on change only by
\* that call's own steps.
C6_CallsIsolated ==
    [][\A p \in Procs :
         (InCall(p) /\ Locals(p)' = Locals(p)) =>
            (tree_' = tree_ /\ ball_radius_constant_' = ball_radius_constant_)]_vars

\* C7: once the rewiring scan of a newly inserted vertex q is over, the cost
\* of q's chain is the least of the cost through its nearest vertex and the
\* costs through the connectible vertices of its near set, its parent is one
\* of those vertices, and its edge cost is the distance to its parent.
C7_CheapestParent ==
    \A p \in Procs :
        (pc[p] = "rewire" /\ j[p] > Len(vertices_inside_circle[p])) =>
            LET n == Len(tree_)
                q == tree_[n]
                t0 == SubSeq(tree_, 1, n - 1)
                v_near == NearestFrom(t0, 1, q.x, q.y, 0, Infinity)
                near_set == InsideFrom(t0, 1, q.x, q.y, calculateBallRadius(n - 1, 2))
                reach == {near_set[m] : m \in
                            {m \in 1 .. Len(near_set) : connectible(q, t0[near_set[m]])}}
                via(c) == ChainCost(t0, c) + calculate_distance(q.x, q.y, t0[c])
            IN /\ q.parent \in reach \cup {v_near}
               /\ q.cost = calculate_distance(q.x, q.y, t0[q.parent])
               /\ ChainCost(tree_, n) = MinOf({via(c) : c \in reach \cup {v_near}})

\* C7 witness: a finished scan that moved q away from its nearest vertex.
C7_Witness ==
    /\ pc[1] = "rewire"
    /\ j[1] > Len(vertices_inside_circle[1])
    /\ tree_[Len(tree_)].parent #
         NearestFrom(SubSeq(tree_, 1, Len(tree_) - 1), 1, tree_[Len(tree_)].x,
                     tree_[Len(tree_)].y, 0, Infinity)

\* C8: the goal vertex is outside the tree during growth and the goal scans,
\* and is appended once, when the loop stops; its parent is then a connectible
\* vertex of within_radius(goal, 2 * connection_radius(tree_size)) of least
\* total cost plus distance, its edge cost is that distance, and the least
\* value is below the acceptance ceiling.
C8_GoalConnection ==
    \A p \in Procs :
        /\ pc[p] \in {"grow", "connect"} => Len(tree_) = i[p]
        /\ pc[p] = "rewire" => Len(tree_) = i[p] + 1
        /\ pc[p] \in {"goal_scan", "goal_check"} => Len(tree_) = max_iterations_
        /\ pc[p] = "smooth" =>
             LET n == Len(tree_)
                 g == end_vertex[p]
                 t0 == SubSeq(tree_, 1, n - 1)
                 near_set == InsideFrom(t0, 1, goal[p][1], goal[p][2],
                                        2 * calculateBallRadius(n - 1, 2))
                 reach == {near_set[m] : m \in
                             {m \in 1 .. Len(near_set) : connectible(g, t0[near_set[m]])}}
                 via(c) == ChainCost(t0, c)
                             + calculate_distance(goal[p][1], goal[p][2], t0[c])
             IN /\ n = max_iterations_ + 1
                /\ tree_[n] = g
                /\ g.x = goal[p][1] /\ g.y = goal[p][2]
                /\ g.parent \in reach
                /\ g.cost = calculate_distance(g.x, g.y, t0[g.parent])
                /\ \A c \in reach : via(g.parent) <= via(c)
                /\ via(g.parent) < 10000 * Scale

\* C8 witness: the goal was connected to a vertex that is not the only
\* connectible candidate of its near set.
C8_Witness ==
    /\ pc[1] = "smooth"
    /\ \E k \in 1 .. Len(tree_) - 1 :
         /\ k # end_vertex[1].parent
         /\ k \in {vertices_inside_circle[1][m] : m \in 1 .. Len(vertices_inside_circle[1])}
         /\ connectible(end_vertex[1], tree_[k])

\* the number of waypoints C9 gives the path of vertex v: one per chain
\* vertex and ceil(distance * 10) - 1 per edge
RECURSIVE ClaimedWaypoints(_, _)
ClaimedWaypoints(t, v) ==
    IF v.parent = 0 THEN 1
    ELSE LET w == t[v.parent]
             steps == CeilSqrt(((v.x - w.x) * (v.x - w.x) + (v.y - w.y) * (v.y - w.y)) * 100)
         IN 1 + (IF steps > 0 THEN steps - 1 ELSE 0) + ClaimedWaypoints(t, w)

\* C9: the raw path holds one waypoint per vertex of the goal's parent chain,
\* ceil(distance * 10) - 1 interpolated waypoints per edge, and nothing else.
C9_RawPathWaypoints ==
    \A p \in Procs :
        pc[p] = "smooth" =>
            Len(global_path[p]) = ClaimedWaypoints(tree_, end_vertex[p])

\* C10: a growth step never changes, removes or reorders a vertex inserted
\* earlier; an accepted sample is appended and only its own parent and cost
\* are set afterwards; a rejected sample leaves the tree and the loop counter
\* as they were.
C10_GrowthFrame ==
    [][\A p \in Procs :
         InGrowth(p) =>
            /\ Len(tree_') >= Len(tree_)
            /\ \A k \in 1 .. Len(tree_) :
                 /\ tree_'[k].x = tree_[k].x
                 /\ tree_'[k].y = tree_[k].y
                 /\ (k < Len(tree_) \/ pc[p] # "rewire") => tree_'[k] = tree_[k]
            /\ pc[p] = "connect" =>
                 IF connectible(tree_[new_position[p].parent], new_position[p])
                 THEN tree_' = Append(tree_, new_position[p]) /\ i'[p] = i[p]
                 ELSE tree_' = tree_ /\ i'[p] = i[p] /\ pc'[p] = "grow"
            /\ pc[p] = "grow" => tree_' = tree_]_vars

\* C10 witness: a sample that fails the connectivity check is about to be
\* discarded from a tree that already holds inserted samples.
C10_Witness ==
    /\ pc[1] = "connect"
    /\ Len(tree_) >= 3
    /\ ~connectible(tree_[new_position[1].parent], new_position[1])

=============================================================================
